---- MODULE Spec2Model ----
(***************************************************************************)
(* Model of src/main.py: a FastAPI service with an in-memory portfolio     *)
(* store (portfolios_db) written by POST/PUT/DELETE /portfolios/{user_id}  *)
(* and a price lookup, GET /stocks/{symbol}/price, that asks an external   *)
(* provider for a window of history around the requested date.             *)
(*                                                                         *)
(* The handlers are plain `def` functions, which FastAPI runs in a thread  *)
(* pool: two requests can interleave between any two accesses to           *)
(* portfolios_db.  A handler is therefore modelled as one step per access  *)
(* to the shared dictionary: its presence check (with the validation of    *)
(* the request-local body that follows it) and its write or removal.       *)
(* The price lookup shares no state with anything: it is one step.         *)
(***************************************************************************)
EXTENDS Integers, Sequences, FiniteSets

VARIABLES portfolios_db, reqs, lookup

vars == <<portfolios_db, reqs, lookup>>

(***************************************************************************)
(* Inputs of the portfolio routes.                                         *)
(***************************************************************************)
Users == {"u1", "u2"}

StockSymbols == {"AAPL", "MSFT"}

\* Weights are whole percentages: integer-valued floats, whose float sum is
\* exact, so that sum() below is the sum Python computes.
Weights == {50, 100}

\* The worker threads that run the handlers.
Workers == {"w1", "w2"}

\* Portfolio.stocks: dict[str, float], a mapping from symbols to weights.
Portfolio == UNION {[S -> Weights] : S \in SUBSET StockSymbols}

NoStocks == [s \in {} |-> 0]

\* sum(portfolio.stocks.values()), starting from 0.
RECURSIVE total_weight(_)
total_weight(stocks) ==
    IF DOMAIN stocks = {} THEN 0
    ELSE LET s == CHOOSE x \in DOMAIN stocks : TRUE
             rest == [x \in DOMAIN stocks \ {s} |-> stocks[x]]
         IN  stocks[s] + total_weight(rest)

\* A slip of the comparison: only totals above 100 are rejected.
WeightsRejected_OverOnly(stocks) == total_weight(stocks) > 100

\* if total_weight != 100: raise HTTPException(400, ...)
WeightsRejected(stocks) == total_weight(stocks) # 100

(***************************************************************************)
(* Requests and their responses.  reqs[w] is the request worker w holds:   *)
(* none yet ("idle"), one whose handler is about to run ("check"), one     *)
(* between its presence check and its access to the store ("write",        *)
(* "remove"), or one that was answered ("done", with the HTTP status and   *)
(* the message or detail of the response).                                 *)
(***************************************************************************)
Idle ==
    [pc |-> "idle", op |-> "none", user_id |-> "none", stocks |-> NoStocks,
     status |-> 0, detail |-> "none"]

Request(op, user_id, stocks) ==
    [pc |-> "check", op |-> op, user_id |-> user_id, stocks |-> stocks,
     status |-> 0, detail |-> "none"]

\* portfolios_db[user_id] = stocks
DictSet(db, user_id, stocks) ==
    [u \in DOMAIN db \cup {user_id} |-> IF u = user_id THEN stocks ELSE db[u]]

\* del portfolios_db[user_id], for a key that is present
DictDel(db, user_id) == [u \in DOMAIN db \ {user_id} |-> db[u]]

LookupIdle ==
    [phase |-> "none", symbol |-> "none", date |-> <<>>,
     provider |-> [kind |-> "not called", index |-> <<>>, exc |-> "none"],
     status |-> 0, detail |-> <<>>, closest_date |-> <<>>]

Init ==
    /\ portfolios_db = [u \in {} |-> NoStocks]
    /\ reqs = [w \in Workers |-> Idle]
    /\ lookup = LookupIdle

\* A request reaches a free worker; its handler has not run yet.
Arrive(w, op, user_id, stocks) ==
    /\ reqs[w].pc \in {"idle", "done"}
    /\ reqs' = [reqs EXCEPT ![w] = Request(op, user_id, stocks)]
    /\ UNCHANGED <<portfolios_db, lookup>>

\* The handler of worker w ends with an HTTP response: a returned message
\* (200) or a raised HTTPException.
Reply(w, status, detail) ==
    reqs' = [reqs EXCEPT ![w].pc = "done", ![w].status = status,
                         ![w].detail = detail]

\* The handler of worker w goes on to its access of the store.
Proceed(w, pc) == reqs' = [reqs EXCEPT ![w].pc = pc]

(***************************************************************************)
(* POST /portfolios/{user_id}                                              *)
(***************************************************************************)
\* A slip of the order: the weights are validated before the presence check.
save_portfolio_check_ValidatesFirst(w) ==
    /\ reqs[w].pc = "check" /\ reqs[w].op = "create"
    /\ IF WeightsRejected(reqs[w].stocks)
       THEN Reply(w, 400, "Las ponderaciones deben sumar 100%")
       ELSE IF reqs[w].user_id \in DOMAIN portfolios_db
            THEN Reply(w, 400, "El usuario ya tiene un portafolio guardado")
            ELSE Proceed(w, "write")
    /\ UNCHANGED <<portfolios_db, lookup>>

\* A slip of the order: the portfolio is stored before it is validated.
save_portfolio_check_StoresFirst(w) ==
    /\ reqs[w].pc = "check" /\ reqs[w].op = "create"
    /\ IF reqs[w].user_id \in DOMAIN portfolios_db
       THEN /\ Reply(w, 400, "El usuario ya tiene un portafolio guardado")
            /\ UNCHANGED portfolios_db
       ELSE /\ portfolios_db' =
                  DictSet(portfolios_db, reqs[w].user_id, reqs[w].stocks)
            /\ IF WeightsRejected(reqs[w].stocks)
               THEN Reply(w, 400, "Las ponderaciones deben sumar 100%")
               ELSE Proceed(w, "write")
    /\ UNCHANGED lookup

save_portfolio_check(w) ==
    /\ reqs[w].pc = "check" /\ reqs[w].op = "create"
    /\ IF reqs[w].user_id \in DOMAIN portfolios_db
       THEN Reply(w, 400, "El usuario ya tiene un portafolio guardado")
       ELSE IF WeightsRejected(reqs[w].stocks)
            THEN Reply(w, 400, "Las ponderaciones deben sumar 100%")
            ELSE Proceed(w, "write")
    /\ UNCHANGED <<portfolios_db, lookup>>

\* The write as a check-and-set: a create that finds the key present fails.
save_portfolio_write_CheckAndSet(w) ==
    /\ reqs[w].pc = "write" /\ reqs[w].op = "create"
    /\ IF reqs[w].user_id \in DOMAIN portfolios_db
       THEN /\ UNCHANGED portfolios_db
            /\ Reply(w, 400, "El usuario ya tiene un portafolio guardado")
       ELSE /\ portfolios_db' =
                  DictSet(portfolios_db, reqs[w].user_id, reqs[w].stocks)
            /\ Reply(w, 200, "Portafolio guardado")
    /\ UNCHANGED lookup

save_portfolio_write(w) ==
    /\ reqs[w].pc = "write" /\ reqs[w].op = "create"
    /\ portfolios_db' = DictSet(portfolios_db, reqs[w].user_id, reqs[w].stocks)
    /\ Reply(w, 200, "Portafolio guardado")
    /\ UNCHANGED lookup

(***************************************************************************)
(* PUT /portfolios/{user_id}                                               *)
(***************************************************************************)
\* An update that creates: the presence check is missing.
update_portfolio_check_Upsert(w) ==
    /\ reqs[w].pc = "check" /\ reqs[w].op = "update"
    /\ IF WeightsRejected(reqs[w].stocks)
       THEN Reply(w, 400, "Las ponderaciones deben sumar 100%")
       ELSE Proceed(w, "write")
    /\ UNCHANGED <<portfolios_db, lookup>>

\* An update that does not validate the weights.
update_portfolio_check_NoValidation(w) ==
    /\ reqs[w].pc = "check" /\ reqs[w].op = "update"
    /\ IF reqs[w].user_id \notin DOMAIN portfolios_db
       THEN Reply(w, 404, "Portafolio no encontrado para este usuario")
       ELSE Proceed(w, "write")
    /\ UNCHANGED <<portfolios_db, lookup>>

update_portfolio_check(w) ==
    /\ reqs[w].pc = "check" /\ reqs[w].op = "update"
    /\ IF reqs[w].user_id \notin DOMAIN portfolios_db
       THEN Reply(w, 404, "Portafolio no encontrado para este usuario")
       ELSE IF WeightsRejected(reqs[w].stocks)
            THEN Reply(w, 400, "Las ponderaciones deben sumar 100%")
            ELSE Proceed(w, "write")
    /\ UNCHANGED <<portfolios_db, lookup>>

update_portfolio_write(w) ==
    /\ reqs[w].pc = "write" /\ reqs[w].op = "update"
    /\ portfolios_db' = DictSet(portfolios_db, reqs[w].user_id, reqs[w].stocks)
    /\ Reply(w, 200, "Portafolio actualizado")
    /\ UNCHANGED lookup

(***************************************************************************)
(* DELETE /portfolios/{user_id}                                            *)
(***************************************************************************)
delete_portfolio_check(w) ==
    /\ reqs[w].pc = "check" /\ reqs[w].op = "delete"
    /\ IF reqs[w].user_id \notin DOMAIN portfolios_db
       THEN Reply(w, 404, "Portafolio no encontrado para este usuario")
       ELSE Proceed(w, "remove")
    /\ UNCHANGED <<portfolios_db, lookup>>

\* The removal as portfolios_db.pop(user_id, None): it never raises.
delete_portfolio_del_Pop(w) ==
    /\ reqs[w].pc = "remove" /\ reqs[w].op = "delete"
    /\ portfolios_db' = DictDel(portfolios_db, reqs[w].user_id)
    /\ Reply(w, 200, "Portafolio eliminado")
    /\ UNCHANGED lookup

\* del of a missing key raises KeyError, which no handler catches: the
\* framework answers 500.
delete_portfolio_del(w) ==
    /\ reqs[w].pc = "remove" /\ reqs[w].op = "delete"
    /\ IF reqs[w].user_id \in DOMAIN portfolios_db
       THEN /\ portfolios_db' = DictDel(portfolios_db, reqs[w].user_id)
            /\ Reply(w, 200, "Portafolio eliminado")
       ELSE /\ UNCHANGED portfolios_db
            /\ Reply(w, 500, "KeyError")
    /\ UNCHANGED lookup

Next ==
    \/ \E w \in Workers, u \in Users, p \in Portfolio : Arrive(w, "create", u, p)
    \/ \E w \in Workers, u \in Users, p \in Portfolio : Arrive(w, "update", u, p)
    \/ \E w \in Workers, u \in Users : Arrive(w, "delete", u, NoStocks)
    \/ \E w \in Workers : save_portfolio_check(w)
    \/ \E w \in Workers : save_portfolio_write(w)
    \/ \E w \in Workers : update_portfolio_check(w)
    \/ \E w \in Workers : update_portfolio_write(w)
    \/ \E w \in Workers : delete_portfolio_check(w)
    \/ \E w \in Workers : delete_portfolio_del(w)

Spec == Init /\ [][Next]_vars

(***************************************************************************)
(* GET /stocks/{symbol}/price?date=...                                     *)
(*                                                                         *)
(* A date string is a sequence of characters.  The window of history the   *)
(* provider returns is the sequence of its dates (history.index), each a   *)
(* proleptic Gregorian ordinal, in ascending order.                        *)
(***************************************************************************)
DigitChars == <<"0", "1", "2", "3", "4", "5", "6", "7", "8", "9">>

IsDigit(c) == \E i \in 1..10 : DigitChars[i] = c

DigitValue(c) == (CHOOSE i \in 1..10 : DigitChars[i] = c) - 1

AllDigits(f) == \A i \in 1..Len(f) : IsDigit(f[i])

RECURSIVE NumberOf(_)
NumberOf(f) ==
    IF f = <<>> THEN 0
    ELSE 10 * NumberOf(SubSeq(f, 1, Len(f) - 1)) + DigitValue(f[Len(f)])

\* The fields of s between the "-" characters.
RECURSIVE Fields(_)
Fields(s) ==
    IF \A i \in 1..Len(s) : s[i] # "-" THEN <<s>>
    ELSE LET i == CHOOSE k \in 1..Len(s) :
                      s[k] = "-" /\ \A j \in 1..(k - 1) : s[j] # "-"
         IN  <<SubSeq(s, 1, i - 1)>> \o Fields(SubSeq(s, i + 1, Len(s)))

IsLeap(y) == y % 4 = 0 /\ (y % 100 # 0 \/ y % 400 = 0)

DaysInMonth(y, m) ==
    IF m = 2 THEN (IF IsLeap(y) THEN 29 ELSE 28)
    ELSE IF m \in {4, 6, 9, 11} THEN 30 ELSE 31

DaysBeforeYear(y) ==
    (y - 1) * 365 + ((y - 1) \div 4) - ((y - 1) \div 100) + ((y - 1) \div 400)

RECURSIVE DaysBeforeMonth(_, _)
DaysBeforeMonth(y, m) ==
    IF m = 1 THEN 0 ELSE DaysBeforeMonth(y, m - 1) + DaysInMonth(y, m - 1)

\* date(y, m, d).toordinal()
ToOrdinal(y, m, d) == DaysBeforeYear(y) + DaysBeforeMonth(y, m) + d

\* date.fromordinal(n)
FromOrdinal(n) ==
    LET y == CHOOSE k \in (n \div 366)..(n \div 365 + 1) :
                 k >= 1 /\ DaysBeforeYear(k) < n /\ n <= DaysBeforeYear(k + 1)
        r == n - DaysBeforeYear(y)
        m == CHOOSE k \in 1..12 :
                 DaysBeforeMonth(y, k) < r
                 /\ r <= DaysBeforeMonth(y, k) + DaysInMonth(y, k)
    IN  [y |-> y, m |-> m, d |-> r - DaysBeforeMonth(y, m)]

\* date.max.toordinal(): 9999-12-31
MaxOrdinal == 3652059

NoDate == [ok |-> FALSE, ordinal |-> 0]

\* datetime.strptime(date, "%Y-%m-%d").date(): the year is four digits, the
\* month 1[0-2]|0[1-9]|[1-9], the day 3[01]|[12]\d|0[1-9]|[1-9]| [1-9],
\* nothing may follow, and the day must exist in the month.  ok = FALSE
\* stands for the ValueError it raises.
strptime(date) ==
    LET f == Fields(date) IN
    IF Len(f) # 3 THEN NoDate
    ELSE LET yf == f[1]
             mf == f[2]
             df == IF Len(f[3]) = 2 /\ f[3][1] = " " THEN <<f[3][2]>> ELSE f[3]
         IN  IF /\ Len(yf) = 4 /\ AllDigits(yf)
                /\ Len(mf) \in {1, 2} /\ AllDigits(mf)
                /\ Len(df) \in {1, 2} /\ AllDigits(df)
                /\ (Len(f[3]) = 2 /\ f[3][1] = " " => df[1] # "0")
             THEN LET y == NumberOf(yf)
                      m == NumberOf(mf)
                      d == NumberOf(df)
                  IN  IF /\ y >= 1
                         /\ m \in 1..12
                         /\ d >= 1 /\ d <= 31
                         /\ d <= DaysInMonth(y, m)
                      THEN [ok |-> TRUE, ordinal |-> ToOrdinal(y, m, d)]
                      ELSE NoDate
             ELSE NoDate

\* The decimal digits of n, zero-padded to the given width.
RECURSIVE Padded(_, _)
Padded(n, width) ==
    IF width = 0 THEN <<>>
    ELSE Padded(n \div 10, width - 1) \o <<DigitChars[(n % 10) + 1]>>

\* date.isoformat(): YYYY-MM-DD
isoformat(ordinal) ==
    LET t == FromOrdinal(ordinal)
    IN  Padded(t.y, 4) \o <<"-">> \o Padded(t.m, 2) \o <<"-">> \o Padded(t.d, 2)

\* timedelta(days=3)
WindowDays == 3

Abs(x) == IF x < 0 THEN 0 - x ELSE x

\* The key without abs: the difference keeps its sign.
Distance_Signed(d, date_obj) == d - date_obj

\* lambda d: abs(d.date() - date_obj)
Distance(d, date_obj) == Abs(d - date_obj)

\* min(history.index, key=...): the first date of the index of least key.
RECURSIVE ClosestFrom(_, _, _)
ClosestFrom(index, date_obj, best) ==
    IF index = <<>> THEN best
    ELSE ClosestFrom(Tail(index), date_obj,
                     IF Distance(Head(index), date_obj) < Distance(best, date_obj)
                     THEN Head(index) ELSE best)

closest_date(index, date_obj) == ClosestFrom(Tail(index), date_obj, Head(index))

\* The set S of ordinals as an ascending sequence.
RECURSIVE Ascending(_)
Ascending(S) ==
    IF S = {} THEN <<>>
    ELSE LET lo == CHOOSE x \in S : \A z \in S : x <= z
         IN  <<lo>> \o Ascending(S \ {lo})

\* Exceptions the provider (yf.Ticker, stock.history) can raise; a
\* JSONDecodeError is a ValueError.
ProviderExceptions == {"ValueError", "JSONDecodeError", "ConnectionError", "KeyError"}

IsValueError(exc) == exc \in {"ValueError", "JSONDecodeError"}

NotCalled == LookupIdle.provider

\* str(e) of an exception the provider raises.
ProviderMessage(exc) == <<"provider failure: ", exc>>

\* How many days outside the window asked for the rows of the provider may
\* fall.
MaxExtraDays == 0

\* What stock.history(start, end) does: it returns the rows it has for dates
\* of the window, possibly none, or it raises.
ProviderOutcomes(start, end) ==
    {[kind |-> "history", index |-> Ascending(S), exc |-> "none"] :
        S \in SUBSET ((start - MaxExtraDays)..(end + MaxExtraDays))}
    \cup {[kind |-> "raise", index |-> <<>>, exc |-> e] : e \in ProviderExceptions}

Returned(value) ==
    [kind |-> "return", exc |-> "none", detail |-> <<>>, value |-> value]

Raised(exc, detail) ==
    [kind |-> "raise", exc |-> exc, detail |-> detail, value |-> <<>>]

\* The body of the try statement: what it returns or raises.
TryBody(symbol, date, provider) ==
    LET date_obj == strptime(date) IN
    IF ~date_obj.ok THEN Raised("ValueError", <<"time data does not match format">>)
    ELSE IF \/ date_obj.ordinal - WindowDays < 1
            \/ date_obj.ordinal + WindowDays > MaxOrdinal
         THEN Raised("OverflowError", <<"date value out of range">>)
    ELSE IF provider.kind = "raise"
         THEN Raised(provider.exc, ProviderMessage(provider.exc))
    ELSE IF provider.index = <<>>
         THEN Raised("HTTPException",
                     <<"404", "No hay datos disponibles para ", symbol, " en ">> \o date)
    ELSE Returned(isoformat(closest_date(provider.index, date_obj.ordinal)))

\* str(e): an HTTPException prints as "<status_code>: <detail>".
Str(e) ==
    IF e.exc = "HTTPException"
    THEN <<e.detail[1], ": ">> \o Tail(e.detail)
    ELSE e.detail

\* The except clauses, in their order: ValueError, then Exception.
Handled(r) ==
    IF r.kind = "return"
    THEN [status |-> 200, detail |-> <<>>, closest_date |-> r.value]
    ELSE IF IsValueError(r.exc)
         THEN [status |-> 400,
               detail |-> <<"El formato de la fecha debe ser YYYY-MM-DD">>,
               closest_date |-> <<>>]
         ELSE [status |-> 500, detail |-> Str(r), closest_date |-> <<>>]

\* Whether the handler gets as far as calling the provider.
CallsProvider(date) ==
    /\ strptime(date).ok
    /\ strptime(date).ordinal - WindowDays >= 1
    /\ strptime(date).ordinal + WindowDays <= MaxOrdinal

\* The handler keeps no state between requests: one request per behaviour
\* covers them all.
get_stock_price_on_date(symbol, date, provider) ==
    /\ lookup.phase = "none"
    /\ LET out == Handled(TryBody(symbol, date, provider))
       IN  lookup' = [phase |-> "done", symbol |-> symbol, date |-> date,
                      provider |-> provider, status |-> out.status,
                      detail |-> out.detail, closest_date |-> out.closest_date]
    /\ UNCHANGED <<portfolios_db, reqs>>

\* Date strings of requests.
DateStrings ==
    { <<"2", "0", "2", "3", "-", "0", "4", "-", "0", "9">>,
      <<"2", "0", "2", "4", "-", "0", "2", "-", "2", "9">>,
      <<"2", "0", "2", "3", "-", "1", "-", "2">>,
      <<"2", "0", "2", "3", "-", "0", "2", "-", "2", "9">>,
      <<"2", "0", "2", "3", "-", "1", "3", "-", "0", "1">>,
      <<"0", "9", "/", "0", "4", "/", "2", "0", "2", "3">>,
      <<"h", "o", "y">>,
      <<"0", "0", "0", "1", "-", "0", "1", "-", "0", "2">>,
      <<"9", "9", "9", "9", "-", "1", "2", "-", "3", "0">> }

LookupSymbols == {"MSFT", "XXXX"}

NextLookup ==
    \E symbol \in LookupSymbols, date \in DateStrings :
        IF CallsProvider(date)
        THEN \E provider \in ProviderOutcomes(strptime(date).ordinal - WindowDays,
                                              strptime(date).ordinal + WindowDays) :
                 get_stock_price_on_date(symbol, date, provider)
        ELSE get_stock_price_on_date(symbol, date, NotCalled)

SpecLookup == Init /\ [][NextLookup]_vars

(***************************************************************************)
(* The outcomes of the portfolio routes, as the responses that carry them. *)
(***************************************************************************)
Confirmed(r) == r.pc = "done" /\ r.status = 200

Conflict(r) ==
    /\ r.pc = "done" /\ r.status = 400
    /\ r.detail = "El usuario ya tiene un portafolio guardado"

ValidationError(r) ==
    /\ r.pc = "done" /\ r.status = 400
    /\ r.detail = "Las ponderaciones deben sumar 100%"

NotFound(r) ==
    /\ r.pc = "done" /\ r.status = 404
    /\ r.detail = "Portafolio no encontrado para este usuario"

ServerError(r) == r.pc = "done" /\ r.status = 500

\* Worker w's handler takes its step out of position pc.
Steps(w, pc) == reqs[w].pc = pc /\ reqs'[w].pc # pc

\* The request of worker w is the same one after the step.
SameRequest(w) ==
    /\ reqs'[w].op = reqs[w].op
    /\ reqs'[w].user_id = reqs[w].user_id
    /\ reqs'[w].stocks = reqs[w].stocks

(***************************************************************************)
(* C1.  In every state reachable from the empty store by create, update    *)
(* and delete requests, interleaved in any way, every stored portfolio has *)
(* weights whose total (as sum() computes it) is exactly 100.              *)
(***************************************************************************)
C1_StoredWeightsTotal100 ==
    \A u \in DOMAIN portfolios_db : total_weight(portfolios_db[u]) = 100

\* Both users hold a portfolio, and one of them, of two stocks, was put
\* there by a confirmed update.
C1_Witness ==
    /\ DOMAIN portfolios_db = Users
    /\ \E w \in Workers :
          /\ Confirmed(reqs[w]) /\ reqs[w].op = "update"
          /\ Cardinality(DOMAIN reqs[w].stocks) = 2
          /\ portfolios_db[reqs[w].user_id] = reqs[w].stocks

(***************************************************************************)
(* C2.  A create whose presence check finds the user_id in the store ends  *)
(* with Conflict, whatever its weights, and the store is left as it was.   *)
(***************************************************************************)
C2_DuplicateCreateConflict ==
    [][\A w \in Workers :
          (/\ Steps(w, "check") /\ reqs[w].op = "create"
           /\ reqs[w].user_id \in DOMAIN portfolios_db)
          => (/\ Conflict(reqs'[w]) /\ SameRequest(w)
              /\ portfolios_db' = portfolios_db)]_vars

\* A create with weights that do not total 100 got Conflict for a user that
\* has a portfolio, while the other user has one too.
C2_Witness ==
    /\ DOMAIN portfolios_db = Users
    /\ \E w \in Workers :
          /\ Conflict(reqs[w]) /\ reqs[w].op = "create"
          /\ total_weight(reqs[w].stocks) # 100

(***************************************************************************)
(* C3.  An update or a delete whose presence check finds no portfolio for  *)
(* the user_id ends with NotFound, whatever the body, and the store is     *)
(* left as it was: the update creates no entry.                            *)
(***************************************************************************)
C3_AbsentUpdateDeleteNotFound ==
    [][\A w \in Workers :
          (/\ Steps(w, "check") /\ reqs[w].op \in {"update", "delete"}
           /\ reqs[w].user_id \notin DOMAIN portfolios_db)
          => (/\ NotFound(reqs'[w]) /\ SameRequest(w)
              /\ portfolios_db' = portfolios_db)]_vars

\* An update with valid weights got NotFound for a user without portfolio,
\* and a delete got NotFound too, while the other user has a portfolio.
C3_Witness ==
    \E w1, w2 \in Workers :
        /\ NotFound(reqs[w1]) /\ reqs[w1].op = "update"
        /\ total_weight(reqs[w1].stocks) = 100
        /\ reqs[w1].user_id \notin DOMAIN portfolios_db
        /\ NotFound(reqs[w2]) /\ reqs[w2].op = "delete"
        /\ DOMAIN portfolios_db # {}

(***************************************************************************)
(* C4.  A create for an absent user_id, or an update for a present one,    *)
(* whose weights total anything other than 100 (the empty portfolio        *)
(* included) ends with ValidationError and the store is left as it was.    *)
(***************************************************************************)
C4_BadWeightsRejected ==
    [][\A w \in Workers :
          (/\ Steps(w, "check")
           /\ \/ /\ reqs[w].op = "create"
                 /\ reqs[w].user_id \notin DOMAIN portfolios_db
              \/ /\ reqs[w].op = "update"
                 /\ reqs[w].user_id \in DOMAIN portfolios_db
           /\ total_weight(reqs[w].stocks) # 100)
          => (/\ ValidationError(reqs'[w]) /\ SameRequest(w)
              /\ portfolios_db' = portfolios_db)]_vars

\* An update with an empty portfolio was rejected for a user whose stored
\* portfolio is still there, and a create with a total above 100 was
\* rejected for a user that has none.
C4_Witness ==
    \E w1, w2 \in Workers :
        /\ ValidationError(reqs[w1]) /\ reqs[w1].op = "update"
        /\ reqs[w1].stocks = NoStocks
        /\ reqs[w1].user_id \in DOMAIN portfolios_db
        /\ ValidationError(reqs[w2]) /\ reqs[w2].op = "create"
        /\ total_weight(reqs[w2].stocks) > 100
        /\ reqs[w2].user_id \notin DOMAIN portfolios_db

(***************************************************************************)
(* C8.  The presence check and the write of a create are separate steps:   *)
(* a create that passed its check writes and is confirmed even when the    *)
(* user_id has meanwhile been given a portfolio, which it overwrites.      *)
(* The witness is the race itself: two creates for one absent user_id,     *)
(* both past their check, the first confirmed and stored, the second about *)
(* to write another portfolio over it.                                     *)
(***************************************************************************)
C8_CreateWriteOverwrites ==
    [][\A w \in Workers :
          (/\ Steps(w, "write") /\ reqs[w].op = "create"
           /\ reqs[w].user_id \in DOMAIN portfolios_db)
          => (/\ Confirmed(reqs'[w]) /\ SameRequest(w)
              /\ portfolios_db' =
                   [portfolios_db EXCEPT ![reqs[w].user_id] = reqs[w].stocks])]_vars

C8_Witness ==
    \E w1, w2 \in Workers :
        /\ Confirmed(reqs[w1]) /\ reqs[w1].op = "create"
        /\ reqs[w2].pc = "write" /\ reqs[w2].op = "create"
        /\ reqs[w2].user_id = reqs[w1].user_id
        /\ reqs[w1].user_id \in DOMAIN portfolios_db
        /\ portfolios_db[reqs[w1].user_id] = reqs[w1].stocks
        /\ reqs[w2].stocks # reqs[w1].stocks

(***************************************************************************)
(* C9, as claimed.  Under any interleaving a delete ends confirmed or with *)
(* NotFound, nothing else.                                                 *)
(***************************************************************************)
C9_Original ==
    \A w \in Workers :
        (reqs[w].pc = "done" /\ reqs[w].op = "delete")
        => (Confirmed(reqs[w]) \/ NotFound(reqs[w]))

(***************************************************************************)
(* C9, amended.  A delete ends in one of three ways.  Its presence check   *)
(* ends it with NotFound when the user_id is absent.  Otherwise its        *)
(* removal step follows: it removes the entry and confirms when the        *)
(* user_id is still present, and when a concurrent delete has removed it   *)
(* in between, the removal raises KeyError, the request ends with a server *)
(* error (500) and the store is left as it was.                            *)
(***************************************************************************)
C9_DeleteOutcomes ==
    [][\A w \in Workers :
          /\ (Steps(w, "check") /\ reqs[w].op = "delete")
             => /\ portfolios_db' = portfolios_db
                /\ IF reqs[w].user_id \in DOMAIN portfolios_db
                   THEN reqs'[w].pc = "remove"
                   ELSE NotFound(reqs'[w])
          /\ (Steps(w, "remove") /\ reqs[w].op = "delete")
             => IF reqs[w].user_id \in DOMAIN portfolios_db
                THEN /\ Confirmed(reqs'[w])
                     /\ DOMAIN portfolios_db' =
                          DOMAIN portfolios_db \ {reqs[w].user_id}
                     /\ \A u \in DOMAIN portfolios_db' :
                           portfolios_db'[u] = portfolios_db[u]
                ELSE /\ ServerError(reqs'[w])
                     /\ portfolios_db' = portfolios_db]_vars

\* Two deletes of one user_id: one confirmed, the other ended with the
\* server error.
C9_Witness ==
    \E w1, w2 \in Workers :
        /\ reqs[w1].op = "delete" /\ Confirmed(reqs[w1])
        /\ reqs[w2].op = "delete" /\ ServerError(reqs[w2])
        /\ reqs[w2].user_id = reqs[w1].user_id

(***************************************************************************)
(* C10, as claimed.  A user_id goes from absent to present only by the     *)
(* write of a create request.                                              *)
(***************************************************************************)
C10_Original ==
    [][\A u \in Users :
          (u \notin DOMAIN portfolios_db /\ u \in DOMAIN portfolios_db')
          => \E w \in Workers :
                /\ Steps(w, "write") /\ reqs[w].op = "create"
                /\ reqs[w].user_id = u]_vars

(***************************************************************************)
(* C10, amended.  A user_id goes from absent to present only by the write  *)
(* step of a create or of an update that had passed its presence check,    *)
(* and the entry is that request's portfolio.  An update that passed its   *)
(* check before a delete was confirmed makes the portfolio reappear.       *)
(***************************************************************************)
C10_AbsentToPresent ==
    [][\A u \in Users :
          (u \notin DOMAIN portfolios_db /\ u \in DOMAIN portfolios_db')
          => \E w \in Workers :
                /\ Steps(w, "write") /\ reqs[w].op \in {"create", "update"}
                /\ reqs[w].user_id = u
                /\ Confirmed(reqs'[w])
                /\ portfolios_db'[u] = reqs[w].stocks]_vars

\* A delete of the user_id was confirmed, the user_id is absent, and an
\* update for it is past its presence check, about to write.
C10_Witness ==
    \E w1, w2 \in Workers :
        /\ reqs[w1].op = "delete" /\ Confirmed(reqs[w1])
        /\ reqs[w2].pc = "write" /\ reqs[w2].op = "update"
        /\ reqs[w2].user_id = reqs[w1].user_id
        /\ reqs[w1].user_id \notin DOMAIN portfolios_db

(***************************************************************************)
(* The price lookup.                                                       *)
(***************************************************************************)
DateParses == strptime(lookup.date).ok

RequestedOrdinal == strptime(lookup.date).ordinal

(***************************************************************************)
(* C5, as claimed.  When the date parses and the provider returns an empty *)
(* window, the lookup ends with NotFound (404).                            *)
(***************************************************************************)
C5_Original ==
    (/\ lookup.phase = "done" /\ DateParses
     /\ lookup.provider.kind = "history" /\ lookup.provider.index = <<>>)
    => lookup.status = 404

(***************************************************************************)
(* C6.  For every requested date and every non-empty window, the           *)
(* closest_date of the response is a date of the window, and no date of    *)
(* the window is strictly nearer, in days, to the requested date.          *)
(***************************************************************************)
C6_ClosestDateIsNearest ==
    lookup.status = 200 =>
        LET c == strptime(lookup.closest_date)
            index == lookup.provider.index
        IN  /\ c.ok
            /\ \E i \in 1..Len(index) : index[i] = c.ordinal
            /\ \A i \in 1..Len(index) :
                  Abs(index[i] - RequestedOrdinal) >= Abs(c.ordinal - RequestedOrdinal)

\* The window has three dates or more, none of them the requested one, and
\* the closest is neither the first nor the last.
C6_Witness ==
    /\ lookup.status = 200
    /\ LET c == strptime(lookup.closest_date)
           index == lookup.provider.index
       IN  /\ Len(index) >= 3
           /\ \A i \in 1..Len(index) : index[i] # RequestedOrdinal
           /\ c.ok /\ c.ordinal # index[1] /\ c.ordinal # index[Len(index)]

(***************************************************************************)
(* C7, as claimed.  When the date parses and the provider raises, whatever *)
(* the exception, the lookup ends with UpstreamError (500) carrying the    *)
(* provider's message; InvalidInput (400) is returned only when the date   *)
(* string does not parse.                                                  *)
(***************************************************************************)
C7_Original ==
    lookup.phase = "done" =>
        /\ (DateParses /\ lookup.provider.kind = "raise")
           => (/\ lookup.status = 500
               /\ lookup.detail = ProviderMessage(lookup.provider.exc))
        /\ lookup.status = 400 => ~DateParses

====
